---- MODULE Spec2Model ----
(***************************************************************************)
(* The ninja command-line driver (src/ninja.cc): option parsing, the       *)
(* manifest reload loop, RebuildManifest and RunBuild, together with the   *)
(* Plan / Builder / command runner the driver pumps.  The Plan, Builder    *)
(* and runner live in build.cc, which is not part of the source tree at    *)
(* hand; they are modelled from sections 4.4 and 4.6 of the specification. *)
(***************************************************************************)
EXTENDS FiniteSets, Integers, Sequences, TLC

\* ------------------------------------------------------------------ bounds
\* largest CPU count tried by the driver specification
MaxCpus == 1
\* largest CPU count tried when GuessParallelism is checked on its own
MaxProcessors == 60
\* largest value given with -j (the smallest is -1: atoi accepts a sign)
MaxJ == 1
\* largest value given with -k
MaxK == 2
\* largest number of targets named on the command line
MaxTargets == 2

\* -k's documented default, "keep going until N jobs fail [default=1]"
DefaultK == 1

VARIABLES
  pc,               \* where main() is
  processors,       \* what the platform reports as the CPU count
  opt,              \* main's `opt`: the option getopt_long returned last
  config,           \* globals.config: parallelism, swallow_failures, dry_run
  input_file,       \* main's input_file
  tool,             \* main's tool
  rebuilt_manifest, \* main's rebuilt_manifest
  state,            \* globals.state
  fs,               \* the filesystem as far as this invocation changes it
  exit_code,        \* the status main returns (-1 while running)
  output,           \* the last diagnostic printed
  argv,             \* the targets named on the command line (argv + optind)
  targets,          \* RunBuild's targets vector
  next_target,      \* RunBuild's loop index i (1-based)
  err,              \* the err string of RebuildManifest / RunBuild
  builder,          \* which Builder is live: "none", "manifest", "main"
  dirty,            \* edges the dirtiness analysis of the live Builder finds dirty
  want,             \* Plan: wanted edges not yet finished
  unsatisfied,      \* Plan: per edge, the number of inputs not yet done
  inflight,         \* Plan / runner: edges whose subprocess is running
  done,             \* edges whose success the coordinator has observed
  failed,           \* edges whose failure the coordinator has observed
  failure_count,    \* Builder: failures observed so far
  draining,         \* Builder: the failure budget is exhausted
  keep_going,       \* history: the N of the last -k N (its default when none)
  reloads,          \* history: how often main took `goto reload`
  late              \* history: an edge was submitted after a failure was observed

vars == <<pc, processors, opt, config, input_file, tool, rebuilt_manifest,
          state, fs, exit_code, output, argv, targets, next_target, err,
          builder,
          dirty, want, unsatisfied, inflight, done, failed, failure_count,
          draining, keep_going, reloads, late>>

\* --------------------------------------------------- the manifests' graphs
\* build.ninja declares an edge that regenerates build.ninja itself;
\* alt.ninja has no such edge and sets builddir.
\*   gen : build.ninja <- configure          (generator rule)
\*   x   : x.o   <- x.c
\*   y   : y.o   <- y.c
\*   z   : app   <- x.o || y.o               (y.o is order-only)
\*   all : all   <- app | y.o   (phony; y.o is implicit)
ManifestFiles == {"build.ninja", "alt.ninja"}

Edges == {"gen", "x", "y", "z", "all"}

NoEdge == "none"

explicit(e) ==
  CASE e = "gen" -> {"configure"}
    [] e = "x"   -> {"x.c"}
    [] e = "y"   -> {"y.c"}
    [] e = "z"   -> {"x.o"}
    [] e = "all" -> {"app"}

implicit(e) == IF e = "all" THEN {"y.o"} ELSE {}

order_only(e) == IF e = "z" THEN {"y.o"} ELSE {}

inputs_(e) == explicit(e) \cup implicit(e) \cup order_only(e)

outputs_(e) ==
  CASE e = "gen" -> <<"build.ninja">>
    [] e = "x"   -> <<"x.o">>
    [] e = "y"   -> <<"y.o">>
    [] e = "z"   -> <<"app">>
    [] e = "all" -> <<"all">>

is_phony(e) == e = "all"

\* the edges a manifest file declares
edges_(file) == IF file = "build.ninja" THEN Edges ELSE Edges \ {"gen"}

\* the top-level builddir binding of a manifest file (TRUE: it is set)
builddir(file) == file = "alt.ninja"

Range(s) == {s[i] : i \in 1..Len(s)}

\* Node::in_edge within a State
in_edge(st, n) ==
  IF \E e \in st.edges : n \in Range(outputs_(e))
    THEN CHOOSE e \in st.edges : n \in Range(outputs_(e))
    ELSE NoEdge

\* Node::out_edges within a State, in the order the manifest declares them
EdgeOrder == <<"gen", "x", "y", "z", "all">>

out_edges(st, n) ==
  SelectSeq(EdgeOrder, LAMBDA e : e \in st.edges /\ n \in inputs_(e))

\* the paths a State knows
paths_(st) ==
  UNION {inputs_(e) \cup Range(outputs_(e)) : e \in st.edges}

\* the producing edges of an edge's inputs
Producers(st, e) ==
  {in_edge(st, n) : n \in inputs_(e)} \ {NoEdge}

RECURSIVE Ancestors(_, _)
Ancestors(st, e) ==
  Producers(st, e) \cup UNION {Ancestors(st, p) : p \in Producers(st, e)}

\* the edges that transitively consume an output of e
Dependents(st, e) == {d \in st.edges : e \in Ancestors(st, d)}


\* ------------------------------------------------------------ main: start
\* Globals(): a new, empty State
EmptyState == [file |-> "", edges |-> {}, loads |-> 0, ready |-> {}]

\* a ResetState that forgets to replace the State
ResetStateKeeps(st) == st

\* Globals::ResetState: delete the State and make a new, empty one
ResetState(st) == EmptyState

\* a GuessParallelism without its special cases
GuessParallelismPlain(p) == p + 2

GuessParallelism(p) ==
  CASE p \in {0, 1} -> 2
    [] p = 2        -> 3
    [] OTHER        -> p + 2

\* an option argument: numeric text carries its value, other text none
NumArg(v) == [numeric |-> TRUE, value |-> v]
TextArg == [numeric |-> FALSE, value |-> 0]

JArgs == {NumArg(v) : v \in -1..MaxJ} \cup {TextArg}
KArgs == {NumArg(v) : v \in 0..MaxK} \cup {TextArg}

\* atoi: the leading integer of the text, 0 when there is none
atoi(a) == IF a.numeric THEN a.value ELSE 0

\* a -k that forgets the "- 1"
SwallowFailuresAll(value) == value

\* -k N: "ignore the first N-1 that fail and then stop"
SwallowFailures(value) == value - 1

\* DebugEnable: TRUE when ninja should go on
DebugModes == {"list", "stats", "bogus"}
DebugEnable(name) == name = "stats"

Tools == {"list", "query", "bogus"}

\* a switch whose default case breaks instead of returning
SwitchReturnsOnHelp(o) == o = "h"

\* the cases of the option switch that return from main: 'h' and default
SwitchReturns(o) == o \in {"h", "?"}

NoPlan ==
  /\ want' = {}
  /\ unsatisfied' = [e \in Edges |-> 0]
  /\ inflight' = {}
  /\ done' = {}
  /\ failed' = {}
  /\ failure_count' = 0
  /\ draining' = FALSE
  /\ dirty' = {}

PlanVars == <<want, unsatisfied, inflight, done, failed, failure_count,
              draining, dirty>>

RunVars == <<argv, targets, next_target, err, builder, reloads, late>>

\* return `code` from main after printing `msg`
Return(code, msg) ==
  /\ pc' = "exit"
  /\ exit_code' = code
  /\ output' = msg

Init ==
  /\ pc = "start"
  /\ processors \in 0..MaxCpus
  /\ opt = "none"
  /\ config = [parallelism |-> 1, swallow_failures |-> DefaultK - 1,
               dry_run |-> FALSE]
  /\ keep_going = DefaultK
  /\ input_file = "build.ninja"
  /\ tool = ""
  /\ rebuilt_manifest = FALSE
  /\ state = EmptyState
  /\ fs = [made_dir |-> FALSE, spawned |-> 0, logged |-> 0]
  /\ exit_code = -1
  /\ output = ""
  /\ argv = <<>>
  /\ targets = <<>>
  /\ next_target = 1
  /\ err = ""
  /\ builder = "none"
  /\ dirty = {}
  /\ want = {}
  /\ unsatisfied = [e \in Edges |-> 0]
  /\ inflight = {}
  /\ done = {}
  /\ failed = {}
  /\ failure_count = 0
  /\ draining = FALSE
  /\ reloads = 0
  /\ late = FALSE

\* globals.config.parallelism = GuessParallelism();
MainStart ==
  /\ pc = "start"
  /\ config' = [config EXCEPT !.parallelism = GuessParallelism(processors)]
  /\ pc' = "opts"
  /\ UNCHANGED <<processors, opt, input_file, tool, rebuilt_manifest, state,
                 fs, exit_code, output, keep_going, RunVars, PlanVars>>

\* ---------------------------------------------------- main: option parsing
InOpts == pc = "opts" /\ tool = ""

OptFrame == UNCHANGED <<processors, rebuilt_manifest, state, fs, RunVars,
                        PlanVars>>

NoK == UNCHANGED keep_going

OptD ==
  /\ InOpts
  /\ \E mode \in DebugModes :
       /\ opt' = "d"
       /\ IF DebugEnable(mode)
            THEN UNCHANGED <<pc, exit_code, output>>
            ELSE Return(1, "debug")
  /\ UNCHANGED <<config, input_file, tool>>
  /\ OptFrame
  /\ NoK

OptF ==
  /\ InOpts
  /\ \E f \in ManifestFiles : input_file' = f
  /\ opt' = "f"
  /\ UNCHANGED <<pc, exit_code, output, config, tool>>
  /\ OptFrame
  /\ NoK

OptJ ==
  /\ InOpts
  /\ \E a \in JArgs : config' = [config EXCEPT !.parallelism = atoi(a)]
  /\ opt' = "j"
  /\ UNCHANGED <<pc, exit_code, output, input_file, tool>>
  /\ OptFrame
  /\ NoK

OptK ==
  /\ InOpts
  /\ opt' = "k"
  /\ \E a \in KArgs :
       IF a.numeric
         THEN /\ config' = [config EXCEPT
                              !.swallow_failures = SwallowFailures(a.value)]
              /\ keep_going' = a.value
              /\ UNCHANGED <<pc, exit_code, output>>
         ELSE /\ Return(1, "fatal")
              /\ UNCHANGED <<config, keep_going>>
  /\ UNCHANGED <<input_file, tool>>
  /\ OptFrame

OptN ==
  /\ InOpts
  /\ config' = [config EXCEPT !.dry_run = TRUE]
  /\ opt' = "n"
  /\ UNCHANGED <<pc, exit_code, output, input_file, tool>>
  /\ OptFrame
  /\ NoK

\* -v and -C set the verbosity and the working directory, which only change
\* what is printed and where relative paths point; neither is kept here.
OptV ==
  /\ InOpts
  /\ opt' = "v"
  /\ UNCHANGED <<pc, exit_code, output, config, input_file, tool>>
  /\ OptFrame
  /\ NoK

OptC ==
  /\ InOpts
  /\ opt' = "C"
  /\ UNCHANGED <<pc, exit_code, output, config, input_file, tool>>
  /\ OptFrame
  /\ NoK

OptT ==
  /\ InOpts
  /\ \E t \in Tools : tool' = t
  /\ opt' = "t"
  /\ UNCHANGED <<pc, exit_code, output, config, input_file>>
  /\ OptFrame
  /\ NoK

\* case 'h' and default ('?': getopt met a flag it does not know)
OptUsage ==
  /\ InOpts
  /\ \E o \in {"h", "?"} :
       /\ opt' = o
       /\ IF SwitchReturns(o)
            THEN Return(1, "usage")
            ELSE /\ output' = "usage"
                 /\ UNCHANGED <<pc, exit_code>>
  /\ UNCHANGED <<config, input_file, tool>>
  /\ OptFrame
  /\ NoK

\* the while loop ends: a tool was named, or getopt_long returned -1
OptsDone ==
  /\ pc = "opts"
  /\ opt' = IF tool = "" THEN "end" ELSE opt
  /\ pc' = "load"
  /\ UNCHANGED <<exit_code, output, config, input_file, tool>>
  /\ OptFrame
  /\ NoK


\* ------------------------------------------ dirtiness analysis and the Plan
\* The outcomes the dirtiness analysis can have on a State: a dirty edge
\* dirties every edge that takes one of its outputs as an explicit or
\* implicit input, and a phony edge is dirty only through its inputs.
DirtySets(st) ==
  {D \in SUBSET st.edges :
     \A e \in st.edges :
       /\ (\E n \in explicit(e) \cup implicit(e) : in_edge(st, n) \in D)
            => e \in D
       /\ (is_phony(e) /\ e \in D)
            => \E n \in inputs_(e) : in_edge(st, n) \in D}

\* the edges the analysis walks from a set of nodes
Subgraph(st, nodes) ==
  UNION {IF in_edge(st, n) = NoEdge THEN {}
           ELSE {in_edge(st, n)} \cup Ancestors(st, in_edge(st, n)) :
         n \in nodes}

\* what the analysis of the subgraph of `nodes` can report
Analyses(st, nodes) == {D \cap Subgraph(st, nodes) : D \in DirtySets(st)}

\* a Plan that does not count order-only inputs
UnsatisfiedInputsNoOrderOnly(st, D, w) ==
  [e \in Edges |->
     IF e \in w
       THEN Cardinality({n \in explicit(e) \cup implicit(e) :
                           in_edge(st, n) \in D})
       ELSE 0]

\* Plan: unsatisfied_inputs of the wanted edges, the dirty inputs of each
UnsatisfiedInputs(st, D, w) ==
  [e \in Edges |->
     IF e \in w
       THEN Cardinality({n \in inputs_(e) : in_edge(st, n) \in D})
       ELSE 0]

\* Builder::AddTarget / Plan::add_target.  `miss`: a source file of the
\* node's subgraph is missing.  ok = FALSE with an empty err: up to date.
AddTarget(st, D, w, n, miss) ==
  LET sub == Subgraph(st, {n})
      add == sub \cap D
  IN  IF miss /\ sub # {}
        THEN [ok |-> FALSE, err |-> "missing input", want |-> w]
        ELSE [ok |-> add # {}, err |-> "", want |-> w \cup add]

\* Builder::AlreadyUpToDate
AlreadyUpToDate(w) == w = {}

\* Plan::next_ready_edge may return e
Ready(e) == e \in want /\ e \notin inflight /\ unsatisfied[e] = 0

\* runner: room for one more subprocess
CanRunMore == Cardinality(inflight) < config.parallelism

\* Plan::edge_finished: the consumers of e's outputs lose one unsatisfied
\* input per output of e they take
Decrement(e) ==
  [c \in Edges |->
     IF c \in want
       THEN unsatisfied[c]
              - Cardinality(Range(outputs_(e)) \cap inputs_(c))
       ELSE unsatisfied[c]]

\* Builder: the failure budget is exhausted after `count` failures
BudgetExhausted(count) == count > config.swallow_failures

BuildFrame == UNCHANGED <<pc, processors, opt, config, input_file, tool,
                          rebuilt_manifest, exit_code, output, argv, targets,
                          next_target, err, builder, dirty, keep_going,
                          reloads>>

\* submit the command of a ready edge to the runner
StartEdge ==
  /\ pc = "build"
  /\ ~draining
  /\ CanRunMore
  /\ ~config.dry_run
  /\ \E e \in Edges :
       /\ Ready(e)
       /\ ~is_phony(e)
       /\ inflight' = inflight \cup {e}
  /\ fs' = [fs EXCEPT !.spawned = @ + 1]
  /\ late' = (late \/ failure_count > 0)
  /\ UNCHANGED <<state, want, unsatisfied, done, failed, failure_count,
                 draining>>
  /\ BuildFrame

\* a ready edge that is phony, or any ready edge on a dry run, completes
\* at once with success and without a subprocess
SynthEdge ==
  /\ pc = "build"
  /\ ~draining
  /\ \E e \in Edges :
       /\ Ready(e)
       /\ is_phony(e) \/ config.dry_run
       /\ done' = done \cup {e}
       /\ want' = want \ {e}
       /\ unsatisfied' = Decrement(e)
       /\ state' = [state EXCEPT !.ready = @ \cup {e}]
  /\ late' = (late \/ failure_count > 0)
  /\ UNCHANGED <<fs, inflight, failed, failure_count, draining>>
  /\ BuildFrame

\* the coordinator observes a subprocess that exited with status 0
EdgeSucceeds ==
  /\ pc = "build"
  /\ \E e \in inflight :
       /\ inflight' = inflight \ {e}
       /\ done' = done \cup {e}
       /\ want' = want \ {e}
       /\ unsatisfied' = Decrement(e)
       /\ state' = [state EXCEPT !.ready = @ \cup {e}]
  /\ fs' = [fs EXCEPT !.logged = @ + 1]
  /\ UNCHANGED <<failed, failure_count, draining, late>>
  /\ BuildFrame

\* the coordinator observes a subprocess that exited with another status
EdgeFails ==
  /\ pc = "build"
  /\ \E e \in inflight :
       /\ inflight' = inflight \ {e}
       /\ failed' = failed \cup {e}
       /\ failure_count' = failure_count + 1
       /\ IF BudgetExhausted(failure_count + 1)
            THEN /\ draining' = TRUE
                 /\ want' = want \ {e}
            ELSE /\ draining' = draining
                 /\ want' = want \ ({e} \cup Dependents(state, e))
  /\ UNCHANGED <<state, fs, unsatisfied, done, late>>
  /\ BuildFrame

\* Builder::Build returns: the plan is done, or the drain is complete
BuildOver == pc = "build" /\ inflight = {} /\ (want = {} \/ draining)

\* Builder::Build's result
BuildResult == failure_count = 0


\* --------------------------------------------------- main: the reload loop
\* ManifestParser::Load into globals.state (label `reload`)
Load ==
  /\ pc = "load"
  /\ \E ok \in BOOLEAN :
       IF ok
         THEN /\ state' = [file  |-> input_file,
                           edges |-> state.edges \cup edges_(input_file),
                           loads |-> state.loads + 1,
                           ready |-> state.ready]
              /\ pc' = IF tool # "" THEN "tool" ELSE "log"
              /\ UNCHANGED <<exit_code, output>>
         ELSE /\ Return(1, "load error")
              /\ UNCHANGED state
  /\ UNCHANGED <<processors, opt, config, input_file, tool, rebuilt_manifest,
                 fs, keep_going, RunVars, PlanVars>>

\* the statuses RunTool can return for a tool name
ToolStatus(t) ==
  CASE t = "list"  -> {0}
    [] t = "bogus" -> {1}
    [] OTHER       -> {0, 1}

RunTool ==
  /\ pc = "tool"
  /\ \E code \in ToolStatus(tool) : Return(code, "tool")
  /\ UNCHANGED <<processors, opt, config, input_file, tool, rebuilt_manifest,
                 state, fs, keep_going, RunVars, PlanVars>>

\* MakeDir(build_dir), build_log.Load, build_log.OpenForWrite
OpenBuildLog ==
  /\ pc = "log"
  /\ \E mk \in {"created", "exists", "failed"}, loaded \in BOOLEAN,
        opened \in BOOLEAN :
       LET has_dir == builddir(state.file)
           good == (has_dir => mk # "failed") /\ loaded /\ opened
       IN  /\ fs' = [fs EXCEPT !.made_dir = @ \/ (has_dir /\ mk = "created")]
           /\ IF good
                THEN /\ pc' = "rebuild"
                     /\ UNCHANGED <<exit_code, output>>
                ELSE Return(1, "log error")
  /\ UNCHANGED <<processors, opt, config, input_file, tool, rebuilt_manifest,
                 state, keep_going, RunVars, PlanVars>>

\* a main that tries to rebuild the manifest on every pass
NeedsRebuildCheckAlways == TRUE

\* main: `if (!rebuilt_manifest)`
NeedsRebuildCheck == ~rebuilt_manifest

\* RebuildManifest up to the call of Build
RebuildManifest ==
  /\ pc = "rebuild"
  /\ NeedsRebuildCheck
  /\ IF input_file \notin paths_(state)
       THEN /\ pc' = "collect"
            /\ UNCHANGED <<exit_code, output, err, builder, PlanVars>>
       ELSE \E D \in Analyses(state, {input_file}), miss \in BOOLEAN :
              LET r == AddTarget(state, D, {}, input_file, miss) IN
                IF r.err # ""
                  THEN /\ Return(1, "rebuild error")
                       /\ err' = r.err
                       /\ UNCHANGED <<builder, PlanVars>>
                  ELSE IF AlreadyUpToDate(r.want)
                    THEN /\ pc' = "collect"
                         /\ UNCHANGED <<exit_code, output, err, builder,
                                        PlanVars>>
                    ELSE /\ pc' = "build"
                         /\ builder' = "manifest"
                         /\ dirty' = D
                         /\ want' = r.want
                         /\ unsatisfied' = UnsatisfiedInputs(state, D, r.want)
                         /\ inflight' = {}
                         /\ done' = {}
                         /\ failed' = {}
                         /\ failure_count' = 0
                         /\ draining' = FALSE
                         /\ UNCHANGED <<exit_code, output, err>>
  /\ UNCHANGED <<processors, opt, config, input_file, tool, rebuilt_manifest,
                 state, fs, keep_going, argv, targets, next_target, reloads,
                 late>>

\* main: the manifest was already rebuilt once, go on to RunBuild
SkipRebuild ==
  /\ pc = "rebuild"
  /\ ~NeedsRebuildCheck
  /\ pc' = "collect"
  /\ UNCHANGED <<processors, opt, config, input_file, tool, rebuilt_manifest,
                 state, fs, exit_code, output, keep_going, RunVars, PlanVars>>

\* RebuildManifest's Build returned: reset and reload, or give up
ManifestBuilt ==
  /\ BuildOver
  /\ builder = "manifest"
  /\ IF BuildResult
       THEN /\ rebuilt_manifest' = TRUE
            /\ state' = ResetState(state)
            /\ reloads' = reloads + 1
            /\ pc' = "load"
            /\ UNCHANGED <<exit_code, output, err>>
       ELSE /\ Return(1, "rebuild error")
            /\ err' = "subcommand failed"
            /\ UNCHANGED <<rebuilt_manifest, state, reloads>>
  /\ builder' = "none"
  /\ NoPlan
  /\ UNCHANGED <<processors, opt, config, input_file, tool, fs, keep_going,
                 argv, targets, next_target, late>>

\* ----------------------------------------------------------------- RunBuild
TargetArgs ==
  {[path |-> "app", caret |-> FALSE], [path |-> "y.o", caret |-> FALSE],
   [path |-> "x.c", caret |-> TRUE],  [path |-> "all", caret |-> TRUE],
   [path |-> "nope", caret |-> FALSE], [path |-> "ap", caret |-> FALSE]}

ArgLists == UNION {[1..n -> TargetArgs] : n \in 0..MaxTargets}

\* State::DefaultNodes: the outputs no edge consumes, in manifest order
RECURSIVE Flatten(_)
Flatten(ss) == IF ss = <<>> THEN <<>> ELSE Head(ss) \o Flatten(Tail(ss))

DefaultNodes(st) ==
  SelectSeq(Flatten([i \in 1..Len(EdgeOrder) |->
                       IF EdgeOrder[i] \in st.edges
                         THEN outputs_(EdgeOrder[i]) ELSE <<>>]),
            LAMBDA n : out_edges(st, n) = <<>>)

\* State::SpellcheckNode: the known path closest to `path`, "" when none
\* is close ("ap" is one edit away from "app")
SpellcheckNode(st, path) ==
  IF path = "ap" /\ "app" \in paths_(st) THEN "app" ELSE ""

\* a loop pass that builds the suggestion in place of an unknown target
ResolveArgTakesSuggestion(st, a) ==
  IF a.path \in paths_(st)
    THEN IF a.caret
           THEN IF out_edges(st, a.path) = <<>>
                  THEN [ok |-> FALSE, node |-> "", err |-> "no out edge"]
                  ELSE [ok |-> TRUE,
                        node |-> outputs_(out_edges(st, a.path)[1])[1],
                        err |-> ""]
           ELSE [ok |-> TRUE, node |-> a.path, err |-> ""]
    ELSE IF SpellcheckNode(st, a.path) # ""
           THEN [ok |-> TRUE, node |-> SpellcheckNode(st, a.path),
                 err |-> ""]
           ELSE [ok |-> FALSE, node |-> "", err |-> "unknown target"]

\* one pass of the loop over argv
ResolveArg(st, a) ==
  IF a.path \in paths_(st)
    THEN IF a.caret
           THEN IF out_edges(st, a.path) = <<>>
                  THEN [ok |-> FALSE, node |-> "", err |-> "no out edge"]
                  ELSE [ok |-> TRUE,
                        node |-> outputs_(out_edges(st, a.path)[1])[1],
                        err |-> ""]
           ELSE [ok |-> TRUE, node |-> a.path, err |-> ""]
    ELSE [ok |-> FALSE, node |-> "",
          err |-> IF SpellcheckNode(st, a.path) # ""
                    THEN "unknown target, did you mean"
                    ELSE "unknown target"]

RECURSIVE CollectFrom(_, _, _)
CollectFrom(st, args, acc) ==
  IF args = <<>>
    THEN [ok |-> TRUE, targets |-> acc, err |-> ""]
    ELSE LET r == ResolveArg(st, Head(args)) IN
           IF r.ok
             THEN CollectFrom(st, Tail(args), Append(acc, r.node))
             ELSE [ok |-> FALSE, targets |-> acc, err |-> r.err]

CollectTargetsFromArgs(st, args) ==
  IF args = <<>>
    THEN [ok |-> TRUE, targets |-> DefaultNodes(st), err |-> ""]
    ELSE CollectFrom(st, args, <<>>)

\* RunBuild: resolve the targets and construct the Builder
CollectTargets ==
  /\ pc = "collect"
  /\ \E args \in ArgLists :
       LET r == CollectTargetsFromArgs(state, args) IN
         /\ argv' = args
         /\ IF r.ok
              THEN /\ targets' = r.targets
                   /\ next_target' = 1
                   /\ builder' = "main"
                   /\ \E D \in Analyses(state, Range(r.targets)) : dirty' = D
                   /\ pc' = "add"
                   /\ UNCHANGED <<exit_code, output, err>>
              ELSE /\ Return(1, "target error")
                   /\ err' = r.err
                   /\ dirty' = {}
                   /\ UNCHANGED <<targets, next_target, builder>>
  /\ want' = {}
  /\ unsatisfied' = [e \in Edges |-> 0]
  /\ inflight' = {}
  /\ done' = {}
  /\ failed' = {}
  /\ failure_count' = 0
  /\ draining' = FALSE
  /\ UNCHANGED <<processors, opt, config, input_file, tool, rebuilt_manifest,
                 state, fs, keep_going, reloads, late>>

\* a RunBuild that takes every false AddTarget for an error
AddTargetFailedAlways(ok, e) == ~ok

\* RunBuild: is a false AddTarget an error?
AddTargetFailed(ok, e) == ~ok /\ e # ""

\* RunBuild: one pass of the loop over targets
AddTargets ==
  /\ pc = "add"
  /\ next_target <= Len(targets)
  /\ \E miss \in BOOLEAN :
       LET r == AddTarget(state, dirty, want, targets[next_target], miss) IN
         IF AddTargetFailed(r.ok, r.err)
           THEN /\ Return(1, "plan error")
                /\ err' = r.err
                /\ UNCHANGED <<want, unsatisfied, next_target>>
           ELSE /\ want' = r.want
                /\ unsatisfied' = UnsatisfiedInputs(state, dirty, r.want)
                /\ next_target' = next_target + 1
                /\ UNCHANGED <<pc, exit_code, output, err>>
  /\ UNCHANGED <<processors, opt, config, input_file, tool, rebuilt_manifest,
                 state, fs, keep_going, argv, targets, builder, dirty,
                 inflight,
                 done, failed, failure_count, draining, reloads, late>>

\* RunBuild: "no work to do", or call Build
StartBuild ==
  /\ pc = "add"
  /\ next_target > Len(targets)
  /\ IF AlreadyUpToDate(want)
       THEN Return(0, "no work to do")
       ELSE /\ pc' = "build"
            /\ UNCHANGED <<exit_code, output>>
  /\ UNCHANGED <<processors, opt, config, input_file, tool, rebuilt_manifest,
                 state, fs, keep_going, RunVars, PlanVars>>

\* RunBuild: Build returned
BuildReturns ==
  /\ BuildOver
  /\ builder = "main"
  /\ IF BuildResult
       THEN Return(0, "")
       ELSE Return(1, "build stopped")
  /\ UNCHANGED <<processors, opt, config, input_file, tool, rebuilt_manifest,
                 state, fs, keep_going, RunVars, PlanVars>>

\* -------------------------------------------------------- specifications
Next ==
  \/ MainStart
  \/ OptD \/ OptF \/ OptJ \/ OptK \/ OptN \/ OptV \/ OptC \/ OptT
  \/ OptUsage \/ OptsDone
  \/ Load \/ RunTool \/ OpenBuildLog
  \/ RebuildManifest \/ SkipRebuild \/ ManifestBuilt
  \/ CollectTargets \/ AddTargets \/ StartBuild \/ BuildReturns
  \/ StartEdge \/ SynthEdge \/ EdgeSucceeds \/ EdgeFails

Spec == Init /\ [][Next]_vars

\* GuessParallelism on its own, over a wide range of CPU counts
InitGuess ==
  /\ pc = "start"
  /\ processors \in 0..MaxProcessors
  /\ opt = "none"
  /\ config = [parallelism |-> 1, swallow_failures |-> DefaultK - 1,
               dry_run |-> FALSE]
  /\ keep_going = DefaultK
  /\ input_file = "build.ninja"
  /\ tool = ""
  /\ rebuilt_manifest = FALSE
  /\ state = EmptyState
  /\ fs = [made_dir |-> FALSE, spawned |-> 0, logged |-> 0]
  /\ exit_code = -1
  /\ output = ""
  /\ argv = <<>>
  /\ targets = <<>>
  /\ next_target = 1
  /\ err = ""
  /\ builder = "none"
  /\ dirty = {}
  /\ want = {}
  /\ unsatisfied = [e \in Edges |-> 0]
  /\ inflight = {}
  /\ done = {}
  /\ failed = {}
  /\ failure_count = 0
  /\ draining = FALSE
  /\ reloads = 0
  /\ late = FALSE

SpecGuess == InitGuess /\ [][MainStart]_vars


\* ------------------------------------------------------------- properties
Untouched == [made_dir |-> FALSE, spawned |-> 0, logged |-> 0]

\* C1: the manifest reload happens at most once per invocation; after a
\* reload the manifest-rebuild step is never attempted again, and the pass
\* that follows the reload goes from the rebuild check straight to RunBuild.
C1_ReloadAtMostOnce ==
  /\ [](/\ reloads <= 1
        /\ (reloads = 1) <=> rebuilt_manifest
        /\ rebuilt_manifest => builder # "manifest")
  /\ [][(rebuilt_manifest /\ pc = "rebuild") => pc' = "collect"]_vars

\* the main build runs after a reload while the self-rebuild edge is dirty
\* again
C1_Witness ==
  /\ reloads = 1
  /\ pc = "build"
  /\ builder = "main"
  /\ "gen" \in dirty

\* C2: when the manifest-only build did work, the manifest edge ran first,
\* then the State was replaced by one holding a single fresh parse of the
\* manifest, and only then were the user's targets resolved and built; the
\* State the main Builder works on carries nothing of the manifest build.
C2_ReloadOrder ==
  /\ rebuilt_manifest =>
       /\ reloads = 1
       /\ config.dry_run \/ (fs.spawned >= 1 /\ fs.logged >= 1)
  /\ (rebuilt_manifest /\ pc = "collect") =>
       state = [file |-> input_file, edges |-> edges_(input_file),
                loads |-> 1, ready |-> {}]
  /\ builder = "main" =>
       /\ state.loads = 1
       /\ state.edges = edges_(input_file)
       /\ state.ready = done

\* after a real rebuild of the manifest, the main build has finished an edge
C2_Witness ==
  /\ rebuilt_manifest
  /\ ~config.dry_run
  /\ builder = "main"
  /\ pc = "build"
  /\ done # {}

\* C3: while a build runs, the number of inflight subprocesses is at most
\* the N given with -j.
C3_InflightBound ==
  pc = "build" => Cardinality(inflight) <= config.parallelism

\* C4: an edge is submitted (or completed) only after the coordinator has
\* observed the success of the producing edge of every input, of any kind,
\* that is in the wanted subgraph.
C4_PredecessorsFirst ==
  builder # "none" =>
    \A e \in inflight \cup done \cup failed :
      \A p \in Producers(state, e) : p \in dirty => p \in done

\* z's subprocess runs after x (explicit input) and y (order-only input)
C4_Witness ==
  /\ pc = "build"
  /\ "z" \in inflight
  /\ {"x", "y"} \subseteq done
  /\ {"x", "y"} \subseteq dirty

\* C5: with the default budget (-k 1) no edge is submitted once a failure
\* has been observed; the Builder drains and the invocation fails.
C5_StopAfterFirstFailure ==
  keep_going = DefaultK =>
    /\ ~late
    /\ failure_count > 0 => draining
    /\ (pc = "exit" /\ failure_count > 0) => exit_code = 1

\* a ready edge is refused after the first failure
C5_Witness ==
  /\ keep_going = DefaultK
  /\ pc = "build"
  /\ failure_count = 1
  /\ \E e \in Edges : Ready(e) /\ ~is_phony(e)

\* C6: with -k N, N < 1, no failure makes the Builder stop: every wanted
\* edge that does not depend on a failed edge completes, and the invocation
\* exits non-zero when a command failed.
C6_KeepGoingUnlimited ==
  (keep_going < 1 /\ builder = "main") =>
    /\ ~draining
    /\ (pc = "exit" /\ output \in {"", "build stopped"}) =>
         /\ \A e \in dirty :
              (e \notin failed /\ Ancestors(state, e) \cap failed = {})
                => e \in done
         /\ failure_count > 0 => exit_code # 0

\* C7: with -n the invocation leaves the filesystem as it found it.
C7_DryRunLeavesFs == config.dry_run => fs = Untouched

\* C8 as stated: an unknown flag prints the usage text and exits 2, with no
\* manifest loaded and no command run.
C8_UnknownFlagExits2 ==
  opt = "?" =>
    /\ pc = "exit"
    /\ exit_code = 2
    /\ output = "usage"
    /\ state = EmptyState
    /\ fs = Untouched

\* C8 (amended): when option parsing reaches an unknown flag, the usage
\* text is printed and main returns 1, with no manifest loaded and no
\* command run.
C8_UnknownFlagExits1 ==
  opt = "?" =>
    /\ pc = "exit"
    /\ exit_code = 1
    /\ output = "usage"
    /\ state = EmptyState
    /\ fs = Untouched

C8_Witness == opt = "?" /\ pc = "exit"

\* C9 as stated: without -j, parallelism is CPU count + 2 for every count,
\* and at least 2.
C9_GuessIsCpusPlusTwo ==
  pc = "opts" =>
    /\ config.parallelism = processors + 2
    /\ config.parallelism >= 2

\* C9 (amended): without -j, parallelism is 2 for 0 or 1 CPUs, 3 for 2
\* CPUs, CPU count + 2 from 3 CPUs on, and never less than 2.
C9_GuessTable ==
  pc = "opts" =>
    /\ processors \in {0, 1} => config.parallelism = 2
    /\ processors = 2 => config.parallelism = 3
    /\ processors >= 3 => config.parallelism = processors + 2
    /\ config.parallelism >= 2

\* CPU detection yielded nothing and the guess has been made
C9_Witness == pc = "opts" /\ processors = 0 /\ config.parallelism = 2

\* C10: RunBuild returns 0 exactly when every requested target is up to
\* date ("no work to do", nothing run) or every wanted edge was built, and
\* 1 when a target does not resolve, the plan reports an error or the
\* build fails; an up-to-date target does not keep later targets out of
\* the plan.
UpToDate == \A n \in Range(targets) : Subgraph(state, {n}) \cap dirty = {}

C10_ExitCodes ==
  /\ (pc = "exit" /\ output = "target error") => exit_code = 1
  /\ (pc = "exit" /\ builder = "main") =>
       /\ exit_code \in {0, 1}
       /\ exit_code = 0 <=>
            /\ err = ""
            /\ UpToDate \/ (dirty \subseteq done /\ failed = {})
       /\ output = "no work to do" <=> (err = "" /\ UpToDate)
       /\ output = "no work to do" =>
            (exit_code = 0 /\ done = {} /\ failed = {})
       /\ output = "plan error" <=> err # ""
       /\ output = "build stopped" => failure_count > 0
  /\ (pc = "add" /\ next_target > Len(targets)) => want = dirty

\* the first target was up to date, the second was built, exit 0
C10_Witness ==
  /\ pc = "exit"
  /\ exit_code = 0
  /\ targets = <<"y.o", "app">>
  /\ "y" \notin dirty
  /\ "z" \in done


\* where an edge stands in the manifest
Position(e) == CHOOSE i \in 1..Len(EdgeOrder) : EdgeOrder[i] = e

\* the edges that take node n as an input
Consumers(st, n) == {e \in st.edges : n \in inputs_(e)}

\* an argument names a known node and, with '^', one that has a consumer
Resolves(st, a) ==
  /\ a.path \in paths_(st)
  /\ a.caret => Consumers(st, a.path) # {}

\* the node an argument stands for
Expected(st, a) ==
  IF a.caret
    THEN outputs_(CHOOSE e \in Consumers(st, a.path) :
                    \A f \in Consumers(st, a.path) :
                      Position(e) <= Position(f))[1]
    ELSE a.path

\* C11: target resolution is all-or-nothing and comes before the plan: a
\* bare path stands for its node, path^ for the first output of the first
\* edge consuming that node; a path without consumers given with '^' and an
\* unknown path (with or without a spelling suggestion) fail; when one of
\* the arguments fails, RunBuild returns 1 with no target kept, no Builder
\* made and no edge wanted, submitted or finished.
C11_AllOrNothing ==
  /\ (\E i \in 1..Len(argv) : ~Resolves(state, argv[i])) =>
       /\ pc = "exit"
       /\ output = "target error"
       /\ exit_code = 1
       /\ err # ""
       /\ builder = "none"
       /\ targets = <<>>
       /\ want = {} /\ inflight = {} /\ done = {} /\ failed = {}
  /\ builder = "main" =>
       IF argv = <<>>
         THEN targets = DefaultNodes(state)
         ELSE /\ Len(targets) = Len(argv)
              /\ \A i \in 1..Len(argv) :
                   /\ Resolves(state, argv[i])
                   /\ targets[i] = Expected(state, argv[i])
  /\ (want # {} \/ inflight # {} \/ done # {} \/ failed # {}) =>
       builder # "none"

\* the first argument resolves, the second is a misspelling with a
\* suggestion: RunBuild fails and nothing is added
C11_Witness ==
  /\ pc = "exit"
  /\ output = "target error"
  /\ Len(argv) = 2
  /\ Resolves(state, argv[1])
  /\ argv[2].path = "ap"
  /\ err = "unknown target, did you mean"
  /\ want = {}

====
